---- MODULE Spec2Model ----
(***************************************************************************)
(* A model of src/ObjectDetectionModel.py: the Frame Source (VideoStream), *)
(* the spatial mapping helpers, the gesture hold-duration state machine    *)
(* and the detection orchestrator (ObjectDetectionModel).                  *)
(*                                                                         *)
(* Time is counted in ticks of half a second (Seconds).  Scores are        *)
(* percentages, normalized box coordinates are per-mille, angles are       *)
(* exact rationals <<numerator, denominator>>.                             *)
(***************************************************************************)
EXTENDS Integers, Sequences, FiniteSets, TLC

\* ------------------------------------------------------------------ bounds
MaxTime == 9          \* the clock stops advancing here
MaxDet == 2           \* detections the detector reports per frame
MaxFrameDelay == 3    \* ticks that may pass between two objects of one frame
MaxStreams == 2       \* VideoStream objects (sessions) an orchestrator constructs
MaxCapture == 8       \* frames the camera captures in a session
MaxHfov == 12         \* horizontal fields of view 1 .. MaxHfov (and the default one)
MaxSections == 4      \* section counts 1 .. MaxSections
MaxMillimetres == 5200 \* distances up to MaxMillimetres millimetres
MaxLeds == 10         \* LED counts 1 .. MaxLeds

\* ------------------------------------------------------ program constants
VideoWidth == 640          \* resolution[0]
Hfov == 89                 \* hfov
MinConfThreshold == 60     \* min_conf_threshold, percent
RefPersonWidth == 20       \* ref_person_width, inches
FocalLength == 325634      \* focal_length_finder(640, 89), thousandths of a pixel
MinDistance == 10          \* min_distance = 0.01 m, millimetres
MaxDistance == 5000        \* max_distance = 5.0 m, millimetres
LinearSlope == 25          \* linear_slope = 0.25, percent

None == "None"
NoHand == "NoHand"

\* a frame is the number of the capture that produced it; a failed grab gives None
NoFrame == 0
\* outcomes of the calls on one detection that raise: the class index has no
\* entry in labels (line 457), find_hands_in_object_detected raises (line 485),
\* the classifier or the lookup of its label raises (lines 488-489)
NoLabel == "IndexError"
ExtractRaises == "find_hands raises"
ClassifyRaises == "classifier raises"

\* keypoint_classifier_labels: the first column of the label file; the labels
\* the gestures are known by, and the spelling line 578 compares with
GestureLabels ==
  {"Love", "Thumbs Up", "Thumbs Down", "Thumps Down", "L", "Pointer", "OK"}

\* time.time() counts ticks of half a second
Seconds(n) == 2 * n

Max(a, b) == IF a >= b THEN a ELSE b
Min(a, b) == IF a <= b THEN a ELSE b

\* Python's round(p / q) for q > 0: to nearest, ties to the even integer
PyRound(p, q) ==
  LET f == (2 * p) \div (2 * q)          \* floor(p / q)
      r == 2 * p - 2 * q * f             \* 2 * remainder, in 0 .. 2q-1
  IN  IF r < q THEN f
      ELSE IF r > q THEN f + 1
      ELSE IF f % 2 = 0 THEN f ELSE f + 1

\* ---------------------------------------------------------- spatial mapper
\* create_fov_range_list: n+1 boundaries max_negative + x * span / n,
\* each kept as <<numerator, n>>, sorted descending (x = n first)
create_fov_range_list(hfov, num_of_sections) ==
  LET max_positive_fov == PyRound(hfov, 2)
      max_negative_fov == -1 * max_positive_fov
      n == num_of_sections
  IN  [k \in 1 .. n + 1 |->
         << max_negative_fov * n + (n + 1 - k) * (max_positive_fov - max_negative_fov), n >>]

\* a loop that leaves the last LED of every range out
RECURSIVE led_tuple_loop_gap(_, _, _, _)
led_tuple_loop_gap(i, number_of_leds, leds_ranges, led_tuples_list) ==
  IF i < number_of_leds
  THEN led_tuple_loop_gap(i + leds_ranges, number_of_leds, leds_ranges,
                          Append(led_tuples_list, << i, i + leds_ranges - 1 >>))
  ELSE led_tuples_list

\* create_led_tuple_range_list: ranges (i, i + leds_ranges) while i < number_of_leds
RECURSIVE led_tuple_loop(_, _, _, _)
led_tuple_loop(i, number_of_leds, leds_ranges, led_tuples_list) ==
  IF i < number_of_leds
  THEN led_tuple_loop(i + leds_ranges, number_of_leds, leds_ranges,
                      Append(led_tuples_list, << i, i + leds_ranges >>))
  ELSE led_tuples_list

create_led_tuple_range_list(number_of_leds, num_of_sections) ==
  led_tuple_loop(0, number_of_leds, PyRound(number_of_leds, num_of_sections), << >>)

\* the while loop of create_led_tuple_range_list ends iff the step is positive
\* (or there is nothing to cover)
led_tuple_loop_terminates(number_of_leds, num_of_sections) ==
  number_of_leds <= 0 \/ PyRound(number_of_leds, num_of_sections) > 0

\* a <= b for rationals with positive denominators
RatLeq(a, b) == a[1] * b[2] <= b[1] * a[2]

\* calculate_horz_angle on the mid point xmin + .5 * (xmax - xmin):
\* hfov * (mid / frame_width - 0.5) = hfov * (xmin + xmax - frame_width) / (2 * frame_width)
calculate_horz_angle(xmin, xmax, frame_width, hfov) ==
  << hfov * (xmin + xmax - frame_width), 2 * frame_width >>

\* a scan whose intervals are open at the upper end
RECURSIVE leds_range_index_open(_, _, _)
leds_range_index_open(i, angle_x, hfov_range_list) ==
  IF i < Len(hfov_range_list) - 1
  THEN IF ~RatLeq(hfov_range_list[i + 1], angle_x) /\ RatLeq(hfov_range_list[i + 2], angle_x)
       THEN i
       ELSE leds_range_index_open(i + 1, angle_x, hfov_range_list)
  ELSE i

\* determine_leds_range_for_angle: the (0-based) index it reads led_sections
\* at: the first interval, inclusive on both ends, that holds the angle, else
\* len(hfov_range_list) - 1 when the scan ends without a match
RECURSIVE leds_range_index(_, _, _)
leds_range_index(i, angle_x, hfov_range_list) ==
  IF i < Len(hfov_range_list) - 1
  THEN IF RatLeq(angle_x, hfov_range_list[i + 1]) /\ RatLeq(hfov_range_list[i + 2], angle_x)
       THEN i
       ELSE leds_range_index(i + 1, angle_x, hfov_range_list)
  ELSE i

\* led_sections[i] raises IndexError when there is no such element
determine_leds_range_raises(angle_x, led_secs, hfov_range_list) ==
  leds_range_index(0, angle_x, hfov_range_list) >= Len(led_secs)

determine_leds_range_for_angle(angle_x, led_secs, hfov_range_list) ==
  led_secs[leds_range_index(0, angle_x, hfov_range_list) + 1]

\* estimate_distance, in millimetres: ((known_width * focal_length) / found_width) * 2.54 / 100
\* metres, with the focal length in thousandths of a pixel; found_width is not 0 here
estimate_distance(found_width, focal_length, known_width) ==
  IF found_width > 0
  THEN (known_width * focal_length * 254) \div (found_width * 10000)
  ELSE 0 - ((known_width * focal_length * 254) \div ((0 - found_width) * 10000))

\* brightness_based_on_distance whose exponential branch leaves out the
\* 100 * linear_slope base
brightness_based_on_distance_no_base(distance) ==
  LET min_distance == MinDistance
      max_distance == MaxDistance
      threshold == max_distance \div 2
  IN  IF distance <= min_distance THEN 0
      ELSE IF distance >= max_distance THEN 100
      ELSE IF distance <= threshold
           THEN LET linear_num == (distance - min_distance) * LinearSlope
                    linear_den == threshold - min_distance
                IN  IF linear_num <= LinearSlope * linear_den
                    THEN PyRound(linear_num, linear_den)
                    ELSE LinearSlope
           ELSE LET span == max_distance - threshold
                    nd == distance - threshold
                IN  PyRound((100 - LinearSlope) * nd * nd, span * span)

\* brightness_based_on_distance without the distance >= max_distance branch
brightness_based_on_distance_no_max(distance) ==
  LET min_distance == MinDistance
      max_distance == MaxDistance
      threshold == max_distance \div 2
  IN  IF distance <= min_distance THEN 0
      ELSE IF distance <= threshold
           THEN LET linear_num == (distance - min_distance) * LinearSlope
                    linear_den == threshold - min_distance
                IN  IF linear_num <= LinearSlope * linear_den
                    THEN PyRound(linear_num, linear_den)
                    ELSE LinearSlope
           ELSE LET span == max_distance - threshold
                    nd == distance - threshold
                IN  PyRound(LinearSlope * span * span + (100 - LinearSlope) * nd * nd,
                            span * span)

\* brightness_based_on_distance with its default parameters, distance in
\* millimetres, the result in hundredths (round(x, 2))
brightness_based_on_distance(distance) ==
  LET min_distance == MinDistance
      max_distance == MaxDistance
      threshold == max_distance \div 2
  IN  IF distance <= min_distance THEN 0
      ELSE IF distance >= max_distance THEN 100
      ELSE IF distance <= threshold
           THEN LET linear_num == (distance - min_distance) * LinearSlope
                    linear_den == threshold - min_distance
                IN  IF linear_num <= LinearSlope * linear_den
                    THEN PyRound(linear_num, linear_den)
                    ELSE LinearSlope
           ELSE LET span == max_distance - threshold
                    nd == distance - threshold
                IN  PyRound(LinearSlope * span * span + (100 - LinearSlope) * nd * nd,
                            span * span)

\* ------------------------------------------------------------------- state
VARIABLES
  hand_gesture_recognition,  \* constructor flag
  client_conn,               \* TRUE when an LED sink connection is set
  gui_window,                \* TRUE when a GUI window is set
  led_ranges_set,            \* TRUE once set_led_ranges_for_objects has set its attributes
  led_sections,              \* the list of LED ranges (empty while not set)
  number_of_sections,        \* the configured section count (0 while not set)
  fov_sections,              \* the FOV boundaries start_detection computed (empty before)
  detection_active,          \* the threading.Event
  detection_thread,          \* 0 (None) or an index of threads
  video_stream,              \* 0 (attribute not set) or an index of streams
  streams,                   \* the VideoStream objects constructed so far
  threads,                   \* position of each processing thread created so far
  previous_gestures,         \* held label or None
  gesture_start_time,        \* hold-start time, 0 for None
  frame,                     \* self.frame: NoFrame before the first copy, else the frame copied
  now,                       \* the clock time.time() reads
  ctl,                       \* position of the control thread
  out                        \* what the current loop iteration has done so far

vars == << hand_gesture_recognition, client_conn, gui_window, led_ranges_set, led_sections,
           number_of_sections, fov_sections, detection_active, detection_thread,
           video_stream, streams, threads, previous_gestures, gesture_start_time,
           frame, now, ctl, out >>

config == << hand_gesture_recognition, client_conn, gui_window >>
ledcfg == << led_ranges_set, led_sections, number_of_sections >>
gesture == << previous_gestures, gesture_start_time >>
session == << detection_active, detection_thread, video_stream, fov_sections >>

\* cv2.VideoCapture.read(): None when no frame could be grabbed, else an image
\* (here always image 1: what the picture shows is in the detector's output)
CameraReads == {NoFrame, 1}

\* a VideoStream after __init__: the camera handle is open, the first frame read
NewStream(img) == [stopped |-> FALSE, frame |-> img, update |-> "unstarted", released |-> 0]

\* nothing done yet in this loop iteration
NoOut == [kind |-> "none", consumed |-> FALSE, dets |-> << >>, led_sent |-> FALSE,
          led |-> << >>, gui |-> FALSE, events |-> << >>, hands |-> FALSE,
          cleared |-> FALSE, led_src |-> << >>, gesture_src |-> << >>,
          widths |-> << >>, led_failed |-> FALSE, gui_failed |-> FALSE,
          active |-> TRUE]

\* the controller: where it is in stop_detection (pc), the last call that
\* returned or raised (last), how many stop_detection calls returned in a row
\* (stops, counted up to 2)
\* the state after __init__, for constructor arguments drawn from the given sets
InitWith(hand_flags, conns, windows) ==
  /\ hand_gesture_recognition \in hand_flags
  /\ client_conn \in conns
  /\ gui_window \in windows
  /\ led_ranges_set = FALSE
  /\ led_sections = << >>
  /\ number_of_sections = 0
  /\ fov_sections = << >>
  /\ detection_active = FALSE
  /\ detection_thread = 0
  /\ video_stream = 0
  /\ streams = << >>
  /\ threads = << >>
  /\ previous_gestures = None
  /\ gesture_start_time = 0
  /\ frame = NoFrame
  /\ now = 1
  /\ ctl = [pc |-> "idle", last |-> "none", stops |-> 0]
  /\ out = NoOut

\* ------------------------------------------------------ the detector's output
\* one detection: resolved label, score (percent), normalized box edges
\* boxes[1], boxes[3] (per-mille), and what the hand pipeline finds in the
\* cropped region: NoHand or the label the classifier gives
Det(cls, score, x1, x2, hand) ==
  [cls |-> cls, score |-> score, x1 |-> x1, x2 |-> x2, hand |-> hand]

\* all sequences of at most n elements of S
SeqsUpTo(S, n) == UNION { [1 .. m -> S] : m \in 0 .. n }

\* get_and_set_current_box_vertices, x axis: int(max(1, b * w)), int(min(w, b * w))
BoxXmin(d) == IF d.x1 * VideoWidth < 1000 THEN 1 ELSE (d.x1 * VideoWidth) \div 1000
BoxXmax(d) == IF d.x2 >= 1000 THEN VideoWidth ELSE (d.x2 * VideoWidth) \div 1000

\* the filter without its upper bound on the score
IsQualifyingPerson_no_upper(d) == d.cls = "person" /\ d.score > MinConfThreshold

\* line 458: the label is 'person' and threshold < score <= 1.0
IsQualifyingPerson(d) ==
  d.cls = "person" /\ d.score > MinConfThreshold /\ d.score <= 100

\* lines 468-475: the LED command of the current object; status "skip" when
\* led_sections is empty, "raise" when the block raises (attribute not set,
\* division by a width of 0, no LED range at the index found)
NoCommand(status) == [status |-> status, led_tuple |-> << >>, brightness |-> 0]

LedCommandFor(d) ==
  IF ~led_ranges_set THEN NoCommand("raise")
  ELSE IF led_sections = << >> THEN NoCommand("skip")
  ELSE LET current_obj_width == BoxXmax(d) - BoxXmin(d)
           angle_x == calculate_horz_angle(BoxXmin(d), BoxXmax(d), VideoWidth, Hfov)
       IN  IF current_obj_width = 0 THEN NoCommand("raise")
           ELSE IF determine_leds_range_raises(angle_x, led_sections, fov_sections)
           THEN NoCommand("raise")
           ELSE [status |-> "ok",
                 led_tuple |-> determine_leds_range_for_angle(angle_x, led_sections, fov_sections),
                 brightness |-> brightness_based_on_distance(
                                  estimate_distance(current_obj_width, FocalLength, RefPersonWidth))]

\* line 469 is reached for the current object: led_sections is set and not empty
DistanceCalled == led_ranges_set /\ led_sections # << >>

\* a GUI frame that goes out only when the LED sink took its list
GuiForwarded_after_led(led_ok, gui_ok) == gui_window /\ gui_ok /\ led_ok

\* lines 510-516: the GUI frame is written when a window is set and the write
\* does not raise, whatever became of the LED sink at lines 503-508
GuiForwarded(led_ok, gui_ok) == gui_window /\ gui_ok

\* what the two sinks do with one cycle's data: take it (TRUE) or raise
SinkOutcomes == [led_ok : BOOLEAN, gui_ok : BOOLEAN]
SinksOk == { [led_ok |-> TRUE, gui_ok |-> TRUE] }

\* ------------------------------------------------- gesture state machine
\* GUI.write_event_value(key, value), with the hold the event was raised for
Event(key, value, held, duration) ==
  [key |-> key, value |-> value, held |-> held, duration |-> duration]

\* the phase with the parity the other way round
ToggleStatus_even(duration) == ((duration \div Seconds(2)) % 2) = 0

\* handle_love_gesture_event / handle_ok_gesture_event: ((duration // 2) % 2) == 1
ToggleStatus(duration) == ((duration \div Seconds(2)) % 2) = 1

\* handle_hand_gesture_control_event: the events written for the held label;
\* without a GUI window write_event_value raises and line 497 swallows it
handle_hand_gesture_control_event(held, duration) ==
  IF ~gui_window THEN << >>
  ELSE IF held = "Love"
       THEN << Event("HANDGESTURETURNONALLLEDS",
                     IF ToggleStatus(duration) THEN "True" ELSE "False", held, duration) >>
  ELSE IF held = "Thumbs Up"
       THEN << Event("HANDGESTUREINCREASEBRIGHTNESS", "1", held, duration) >>
  ELSE IF held = "Thumps Down"
       THEN << Event("HANDGESTUREDECREASEBRIGHTNESS", "1", held, duration) >>
  ELSE IF held = "L"
       THEN << Event("HANDGESTUREINCREASELEDRANGE", "1", held, duration) >>
  ELSE IF held = "Pointer"
       THEN << Event("HANDGESTUREDECREASELEDRANGE", "1", held, duration) >>
  ELSE IF held = "OK"
       THEN << Event(IF ToggleStatus(duration) THEN "HANDGESTURELEDRANGELEFTRIGHT"
                                               ELSE "HANDGESTURELEDRANGERIGHTLEFT",
                     "True", held, duration) >>
  ELSE << >>

\* lines 489-496 on the running state acc of one frame, the clock reading t
EvaluateGesture(acc, hand_sign_detected_label, t) ==
  IF acc.previous_gestures # hand_sign_detected_label
  THEN [acc EXCEPT !.gesture_start_time = t,
                   !.previous_gestures = hand_sign_detected_label]
  ELSE IF acc.previous_gestures # None /\ acc.gesture_start_time # 0
  THEN LET duration == t - acc.gesture_start_time
       IN  IF duration > Seconds(1)
           THEN [acc EXCEPT !.events =
                   @ \o handle_hand_gesture_control_event(acc.previous_gestures, duration)]
           ELSE acc
  ELSE acc

\* a gesture block whose exceptions leave loop_over_all_objects_detected
GestureBlock_reraise(acc, d, i, t) ==
  IF ~hand_gesture_recognition \/ d.hand = NoHand THEN acc
  ELSE IF d.hand = ExtractRaises THEN [acc EXCEPT !.aborted = TRUE]
  ELSE IF d.hand = ClassifyRaises THEN [acc EXCEPT !.hands = TRUE, !.aborted = TRUE]
  ELSE EvaluateGesture([acc EXCEPT !.hands = TRUE, !.gesture_src = Append(@, i)], d.hand, t)

\* lines 482-498, the gesture block of one qualifying person: an exception
\* anywhere in it is swallowed by 'except: pass' and the loop goes on
GestureBlock(acc, d, i, t) ==
  IF ~hand_gesture_recognition \/ d.hand = NoHand THEN acc
  ELSE IF d.hand = ExtractRaises THEN acc
  ELSE IF d.hand = ClassifyRaises THEN [acc EXCEPT !.hands = TRUE]
  ELSE EvaluateGesture([acc EXCEPT !.hands = TRUE, !.gesture_src = Append(@, i)], d.hand, t)

\* lines 457-498: the loop over the detections, object i onward; delays[i]
\* ticks pass before object i is handled; the lookup labels[int(classes[i])]
\* is outside every try block, so its IndexError ends the loop (aborted)
RECURSIVE ObjectLoop(_, _, _, _)
ObjectLoop(dets, delays, i, acc) ==
  IF i > Len(dets) \/ acc.aborted THEN acc
  ELSE LET d == dets[i]
           t == acc.t + delays[i]
           a0 == [acc EXCEPT !.t = t]
           aw == IF DistanceCalled
                 THEN [a0 EXCEPT !.widths = Append(@, BoxXmax(d) - BoxXmin(d))]
                 ELSE a0
           cmd == LedCommandFor(d)
           a1 == IF cmd.status = "ok"
                 THEN [aw EXCEPT !.led = Append(@, [led_tuple |-> cmd.led_tuple,
                                                    brightness |-> cmd.brightness]),
                                 !.led_src = Append(@, i)]
                 ELSE aw
           a2 == GestureBlock(a1, d, i, t)
       IN  IF d.cls = NoLabel THEN [a0 EXCEPT !.aborted = TRUE]
           ELSE IF ~IsQualifyingPerson(d) THEN ObjectLoop(dets, delays, i + 1, a0)
           ELSE IF cmd.status = "raise" THEN ObjectLoop(dets, delays, i + 1, aw)
           ELSE ObjectLoop(dets, delays, i + 1, a2)

\* a reset that empties the label and keeps the hold start
check_for_no_hands_or_objects_detected_label(objs_detected, hands_in_frame, acc) ==
  IF objs_detected = 0 \/ ~hands_in_frame
  THEN [acc EXCEPT !.previous_gestures = None]
  ELSE acc

\* the reset only when there are no objects and no hands
check_for_no_hands_or_objects_detected_and(objs_detected, hands_in_frame, acc) ==
  IF objs_detected = 0 /\ ~hands_in_frame
  THEN [acc EXCEPT !.gesture_start_time = 0, !.previous_gestures = None]
  ELSE acc

\* check_for_no_hands_or_objects_detected
check_for_no_hands_or_objects_detected(objs_detected, hands_in_frame, acc) ==
  IF objs_detected = 0 \/ ~hands_in_frame
  THEN [acc EXCEPT !.gesture_start_time = 0, !.previous_gestures = None]
  ELSE acc

\* the ticks that pass before each object of a frame of n detections; what
\* passes before the first object is part of the time between two steps
FrameDelays(n, max_delay) ==
  { dl \in [1 .. n -> 0 .. max_delay] : n >= 1 => dl[1] = 0 }

RECURSIVE SumSeq(_)
SumSeq(sq) == IF sq = << >> THEN 0 ELSE sq[1] + SumSeq(Tail(sq))

\* ------------------------------------------------------- control thread
\* set_led_ranges_for_objects
SetLedRanges(number_of_leds, num_of_sections) ==
  /\ ctl.pc = "idle"
  /\ led_tuple_loop_terminates(number_of_leds, num_of_sections)
  /\ led_sections' = create_led_tuple_range_list(number_of_leds, num_of_sections)
  /\ number_of_sections' = num_of_sections
  /\ led_ranges_set' = TRUE
  /\ UNCHANGED << config, session, streams, threads, gesture, frame, now, ctl, out >>

\* Thread.is_alive(): started and not yet returned
IsAlive(k) == threads[k] # "dead"

\* a start_detection that does not test the thread
StartGuard_always == TRUE

\* line 405: detection_thread is None or not detection_thread.is_alive()
StartGuard == IF detection_thread = 0 THEN TRUE ELSE ~IsAlive(detection_thread)

\* start_detection, lines 405-410, when number_of_sections is set
StartDetection(reads) ==
  /\ ctl.pc = "idle"
  /\ StartGuard
  /\ led_ranges_set
  /\ Len(streams) < MaxStreams
  /\ detection_active' = TRUE
  /\ \E img \in reads : streams' = Append(streams, NewStream(img))
  /\ video_stream' = Len(streams) + 1
  /\ fov_sections' = create_fov_range_list(Hfov, number_of_sections)
  /\ threads' = Append(threads, "start")
  /\ detection_thread' = Len(threads) + 1
  /\ ctl' = [ctl EXCEPT !.last = "start", !.stops = 0]
  /\ UNCHANGED << config, ledcfg, gesture, frame, now, out >>

\* start_detection when number_of_sections was never set: line 408 raises
\* AttributeError after lines 406-407 have run
StartDetectionRaises(reads) ==
  /\ ctl.pc = "idle"
  /\ StartGuard
  /\ ~led_ranges_set
  /\ Len(streams) < MaxStreams
  /\ detection_active' = TRUE
  /\ \E img \in reads : streams' = Append(streams, NewStream(img))
  /\ video_stream' = Len(streams) + 1
  /\ ctl' = [ctl EXCEPT !.last = "start_raised", !.stops = 0]
  /\ UNCHANGED << config, ledcfg, fov_sections, detection_thread, threads, gesture,
                  frame, now, out >>

\* start_detection while the thread is alive: the test at line 405 fails and
\* nothing else runs
StartDetectionNoop ==
  /\ ctl.pc = "idle"
  /\ ~StartGuard
  /\ ctl' = [ctl EXCEPT !.last = "start_noop", !.stops = 0]
  /\ UNCHANGED << config, ledcfg, session, streams, threads, gesture, frame, now, out >>

\* stop_detection, line 417: the flag is cleared
StopClear ==
  /\ ctl.pc = "idle"
  /\ detection_active' = FALSE
  /\ ctl' = [ctl EXCEPT !.pc = "stop_stream"]
  /\ UNCHANGED << config, ledcfg, detection_thread, video_stream, fov_sections,
                  streams, threads, gesture, frame, now, out >>

\* a stop_detection that releases the camera handle itself
StopStream_release ==
  /\ ctl.pc = "stop_stream"
  /\ IF video_stream = 0
     THEN /\ ctl' = [ctl EXCEPT !.pc = "idle", !.last = "stop_raised", !.stops = 0]
          /\ UNCHANGED streams
     ELSE /\ streams' = [streams EXCEPT ![video_stream].stopped = TRUE,
                                        ![video_stream].released = @ + 1]
          /\ ctl' = [ctl EXCEPT !.pc = "stop_sleep"]
  /\ UNCHANGED << config, ledcfg, session, threads, gesture, frame, now, out >>

\* stop_detection, lines 418-419: VideoStream.stop(); reading video_stream
\* raises AttributeError when start_detection never ran
StopStream ==
  /\ ctl.pc = "stop_stream"
  /\ IF video_stream = 0
     THEN /\ ctl' = [ctl EXCEPT !.pc = "idle", !.last = "stop_raised", !.stops = 0]
          /\ UNCHANGED streams
     ELSE /\ streams' = [streams EXCEPT ![video_stream].stopped = TRUE]
          /\ ctl' = [ctl EXCEPT !.pc = "stop_sleep"]
  /\ UNCHANGED << config, ledcfg, session, threads, gesture, frame, now, out >>

\* stop_detection, line 420: time.sleep(3) is over and the call returns
StopReturn ==
  /\ ctl.pc = "stop_sleep"
  /\ ctl' = [ctl EXCEPT !.pc = "idle", !.last = "stop", !.stops = Min(@ + 1, 2)]
  /\ UNCHANGED << config, ledcfg, session, streams, threads, gesture, frame, now, out >>

\* --------------------------------------------------- acquisition thread
\* an acquisition loop that stores any frame captured so far
Update_back(s, reads) ==
  /\ s \in 1 .. Len(streams)
  /\ streams[s].update = "running"
  /\ \/ /\ streams[s].stopped
        /\ streams' = [streams EXCEPT ![s].released = @ + 1, ![s].update = "done"]
     \/ /\ ~streams[s].stopped
        /\ \E img \in 1 .. MaxCapture : streams' = [streams EXCEPT ![s].frame = img]
  /\ UNCHANGED << config, ledcfg, session, threads, gesture, frame, now, ctl, out >>

\* one pass of VideoStream.update
Update(s, reads) ==
  /\ s \in 1 .. Len(streams)
  /\ streams[s].update = "running"
  /\ \/ /\ streams[s].stopped
        /\ streams' = [streams EXCEPT ![s].released = @ + 1, ![s].update = "done"]
     \/ /\ ~streams[s].stopped
        /\ \E img \in reads : streams' = [streams EXCEPT ![s].frame = img]
  /\ UNCHANGED << config, ledcfg, session, threads, gesture, frame, now, ctl, out >>

\* the clock advances
Tick ==
  /\ now < MaxTime
  /\ now' = now + 1
  /\ UNCHANGED << config, ledcfg, session, streams, threads, gesture, frame, ctl, out >>

\* ---------------------------------------------------- processing thread
\* a main_detection_loop that keeps the gesture attributes it finds
StartStream_keep(k) ==
  /\ k \in 1 .. Len(threads)
  /\ threads[k] = "start"
  /\ streams' = [streams EXCEPT ![video_stream].stopped = FALSE,
                                ![video_stream].update = "running"]
  /\ threads' = [threads EXCEPT ![k] = "loop"]
  /\ UNCHANGED << config, ledcfg, session, gesture, frame, now, ctl, out >>

\* main_detection_loop, lines 429-431: VideoStream.start() and the gesture reset
StartStream(k) ==
  /\ k \in 1 .. Len(threads)
  /\ threads[k] = "start"
  /\ streams' = [streams EXCEPT ![video_stream].stopped = FALSE,
                                ![video_stream].update = "running"]
  /\ previous_gestures' = None
  /\ gesture_start_time' = 0
  /\ threads' = [threads EXCEPT ![k] = "loop"]
  /\ UNCHANGED << config, ledcfg, session, frame, now, ctl, out >>

\* a loop that does not test the flag
LoopTest_always(k) ==
  /\ k \in 1 .. Len(threads)
  /\ threads[k] = "loop"
  /\ threads' = [threads EXCEPT ![k] = "detect"]
  /\ out' = NoOut
  /\ UNCHANGED << config, ledcfg, session, streams, gesture, frame, now, ctl >>

\* line 432: the loop test
LoopTest(k) ==
  /\ k \in 1 .. Len(threads)
  /\ threads[k] = "loop"
  /\ threads' = [threads EXCEPT ![k] = IF detection_active THEN "detect" ELSE "exit"]
  /\ out' = NoOut
  /\ UNCHANGED << config, ledcfg, session, streams, gesture, frame, now, ctl >>

\* a perform_detection_on_current_frame that goes on with a None frame
PerformDetection_null(k) ==
  /\ k \in 1 .. Len(threads)
  /\ threads[k] = "detect"
  /\ threads' = [threads EXCEPT ![k] = "boxes"]
  /\ IF streams[video_stream].stopped
     THEN UNCHANGED frame
     ELSE frame' = streams[video_stream].frame
  /\ UNCHANGED << config, ledcfg, session, streams, gesture, now, ctl, out >>

\* perform_detection_on_current_frame: returns at once when the stream is
\* stopped; frame1.copy() raises on a None frame and line 438 ends the cycle
PerformDetection(k) ==
  /\ k \in 1 .. Len(threads)
  /\ threads[k] = "detect"
  /\ IF streams[video_stream].stopped
     THEN /\ threads' = [threads EXCEPT ![k] = "boxes"]
          /\ UNCHANGED << frame, out >>
     ELSE IF streams[video_stream].frame = NoFrame
     THEN /\ threads' = [threads EXCEPT ![k] = "loop"]
          /\ out' = [out EXCEPT !.kind = "null_frame"]
          /\ UNCHANGED frame
     ELSE /\ threads' = [threads EXCEPT ![k] = "boxes"]
          /\ frame' = streams[video_stream].frame
          /\ UNCHANGED out
  /\ UNCHANGED << config, ledcfg, session, streams, gesture, now, ctl >>

\* perform_detection_on_current_frame on a frame the detector fails on:
\* line 675 has stored the copy, interpreter.invoke() raises at line 682 and
\* line 438 ends the cycle
PerformDetectionRaises(k) ==
  /\ k \in 1 .. Len(threads)
  /\ threads[k] = "detect"
  /\ ~streams[video_stream].stopped
  /\ streams[video_stream].frame # NoFrame
  /\ frame' = streams[video_stream].frame
  /\ threads' = [threads EXCEPT ![k] = "loop"]
  /\ out' = [out EXCEPT !.kind = "detector_failed"]
  /\ UNCHANGED << config, ledcfg, session, streams, gesture, now, ctl >>

\* get_boxes_classes_and_scores_from_current_frame: returns None when the
\* stream is stopped, and unpacking None at line 436 raises
GetBoxes(k) ==
  /\ k \in 1 .. Len(threads)
  /\ threads[k] = "boxes"
  /\ IF streams[video_stream].stopped
     THEN /\ threads' = [threads EXCEPT ![k] = "loop"]
          /\ out' = [out EXCEPT !.kind = "stopped"]
     ELSE /\ threads' = [threads EXCEPT ![k] = "objects"]
          /\ out' = [out EXCEPT !.consumed = TRUE]
  /\ UNCHANGED << config, ledcfg, session, streams, gesture, frame, now, ctl >>

\* loop_over_all_objects_detected when the stream is stopped: line 453
LoopOverStopped(k) ==
  /\ k \in 1 .. Len(threads)
  /\ threads[k] = "objects"
  /\ streams[video_stream].stopped
  /\ threads' = [threads EXCEPT ![k] = "loop"]
  /\ out' = [out EXCEPT !.kind = "stopped"]
  /\ UNCHANGED << config, ledcfg, session, streams, gesture, frame, now, ctl >>

\* loop_over_all_objects_detected, lines 455-523, on detections dets (boxes,
\* classes, scores) drawn from frames; key is TRUE when cv2.waitKey(1) reads 'q';
\* sinks says which of send_data_callback and the GUI write raise
LoopOverAllObjects(k, frames, max_delay, keys, sinks) ==
  /\ k \in 1 .. Len(threads)
  /\ threads[k] = "objects"
  /\ ~streams[video_stream].stopped
  /\ \E dets \in frames : \E delays \in FrameDelays(Len(dets), max_delay) :
     \E key \in keys : \E sink \in sinks :
       /\ now + SumSeq(delays) <= MaxTime
       /\ LET acc0 == [led |-> << >>, hands |-> FALSE, events |-> << >>, t |-> now,
                       previous_gestures |-> previous_gestures,
                       gesture_start_time |-> gesture_start_time,
                       led_src |-> << >>, gesture_src |-> << >>, widths |-> << >>,
                       aborted |-> FALSE]
              acc1 == ObjectLoop(dets, delays, 1, acc0)
              acc2 == IF hand_gesture_recognition
                      THEN check_for_no_hands_or_objects_detected(Len(dets), acc1.hands, acc1)
                      ELSE acc1
          IN  IF acc1.aborted
              THEN \* the exception leaves the method and line 438 ends the cycle
                   /\ previous_gestures' = acc1.previous_gestures
                   /\ gesture_start_time' = acc1.gesture_start_time
                   /\ now' = acc1.t
                   /\ out' = [out EXCEPT !.kind = "aborted",
                                         !.dets = dets,
                                         !.events = acc1.events,
                                         !.hands = acc1.hands,
                                         !.led_src = acc1.led_src,
                                         !.gesture_src = acc1.gesture_src,
                                         !.widths = acc1.widths,
                                         !.active = detection_active]
                   /\ UNCHANGED streams
              ELSE /\ previous_gestures' = acc2.previous_gestures
                   /\ gesture_start_time' = acc2.gesture_start_time
                   /\ now' = acc1.t
                   /\ out' = [out EXCEPT !.kind = "processed",
                                         !.dets = dets,
                                         !.led_sent = client_conn /\ sink.led_ok,
                                         !.led = IF client_conn THEN acc1.led ELSE << >>,
                                         !.gui = GuiForwarded(sink.led_ok, sink.gui_ok),
                                         !.events = acc1.events,
                                         !.hands = acc1.hands,
                                         !.cleared = acc1.previous_gestures # acc2.previous_gestures,
                                         !.led_src = acc1.led_src,
                                         !.gesture_src = acc1.gesture_src,
                                         !.widths = acc1.widths,
                                         !.led_failed = client_conn /\ ~sink.led_ok,
                                         !.gui_failed = gui_window /\ ~sink.gui_ok,
                                         !.active = detection_active]
                   /\ streams' = [streams EXCEPT ![video_stream].stopped = key]
  /\ threads' = [threads EXCEPT ![k] = "loop"]
  /\ UNCHANGED << config, ledcfg, session, frame, ctl >>

\* a thread that ends without stopping the stream
ExitLoop_no_stop(k) ==
  /\ k \in 1 .. Len(threads)
  /\ threads[k] = "exit"
  /\ threads' = [threads EXCEPT ![k] = "dead"]
  /\ UNCHANGED << config, ledcfg, session, streams, gesture, frame, now, ctl, out >>

\* line 440, after the loop: VideoStream.stop(), and the thread ends
ExitLoop(k) ==
  /\ k \in 1 .. Len(threads)
  /\ threads[k] = "exit"
  /\ streams' = [streams EXCEPT ![video_stream].stopped = TRUE]
  /\ threads' = [threads EXCEPT ![k] = "dead"]
  /\ UNCHANGED << config, ledcfg, session, gesture, frame, now, ctl, out >>

\* ------------------------------------------------------- specifications
ThreadIds == 1 .. MaxStreams

\* ---- Spec: the gesture state machine of a running session, with the clock.
\* A person in the middle of the picture shows no hand or any of the labels;
\* frames of several persons are built from two of the labels.
HoldDetections == { Det("person", 80, 250, 750, h) : h \in {NoHand} \cup GestureLabels }

HoldPairDetections ==
  { Det("person", 80, 250, 750, h) : h \in {"L", "Love"} }

HoldFrames ==
  { << d >> : d \in HoldDetections } \cup SeqsUpTo(HoldPairDetections, MaxDet)

Init == InitWith(BOOLEAN, {TRUE}, BOOLEAN)

Next ==
  \/ SetLedRanges(8, 2)
  \/ StartDetection({1})
  \/ \E s \in ThreadIds : Update(s, {1})
  \/ Tick
  \/ \E k \in ThreadIds : StartStream(k)
  \/ \E k \in ThreadIds : LoopTest(k)
  \/ \E k \in ThreadIds : PerformDetection(k)
  \/ \E k \in ThreadIds : GetBoxes(k)
  \/ \E k \in ThreadIds : LoopOverAllObjects(k, HoldFrames, MaxFrameDelay, {FALSE}, SinksOk)

Spec == Init /\ [][Next]_vars

\* ---- SpecFrame: what one cycle does with a frame, without the clock: null
\* frames, detections that do and do not qualify, boxes of width 0, an LED
\* list shorter than the FOV partition, and the 'q' key.
Detections ==
     { Det("person", 80, 250, 750, h) : h \in {NoHand, "L", "Love"} }
\cup { Det("person", 100, 0, 400, "L"),     \* score exactly 1.0, left of the picture
       Det("person", 80, 500, 500, "L"),    \* a box of width 0
       Det("person", 60, 250, 750, "L"),    \* score exactly the threshold
       Det("person", 110, 250, 750, "L"),   \* score above 1.0
       Det("chair", 90, 250, 750, "L") }

PairDetections ==
  { Det("person", 80, 250, 750, NoHand), Det("person", 100, 0, 400, "L"),
    Det("person", 80, 500, 500, "L"), Det("chair", 90, 250, 750, "Love") }

Frames == { << d >> : d \in Detections } \cup SeqsUpTo(PairDetections, MaxDet)

\* (number_of_leds, number_of_sections) the caller configures
LedConfigs == { << 8, 2 >>, << 6, 4 >> }

InitFrame == InitWith(BOOLEAN, BOOLEAN, {TRUE})

NextFrame ==
  \/ \E c \in LedConfigs : SetLedRanges(c[1], c[2])
  \/ StartDetection(CameraReads)
  \/ StartDetectionRaises(CameraReads)
  \/ \E s \in ThreadIds : Update(s, CameraReads)
  \/ \E k \in ThreadIds : StartStream(k)
  \/ \E k \in ThreadIds : LoopTest(k)
  \/ \E k \in ThreadIds : PerformDetection(k)
  \/ \E k \in ThreadIds : GetBoxes(k)
  \/ \E k \in ThreadIds : LoopOverAllObjects(k, Frames, 0, BOOLEAN, SinksOk)

SpecFrame == InitFrame /\ [][NextFrame]_vars

\* ---- SpecSession: the life of sessions: start_detection and stop_detection
\* in any order, the acquisition thread releasing the camera, the processing
\* thread leaving its loop; frames hold no object, the 'q' key may be pressed.
InitSession == InitWith({FALSE}, {FALSE}, {FALSE})

NextSession ==
  \/ SetLedRanges(8, 2)
  \/ StartDetection({1})
  \/ StartDetectionRaises({1})
  \/ StartDetectionNoop
  \/ StopClear
  \/ StopStream
  \/ StopReturn
  \/ \E s \in ThreadIds : Update(s, {1})
  \/ \E k \in ThreadIds : StartStream(k)
  \/ \E k \in ThreadIds : LoopTest(k)
  \/ \E k \in ThreadIds : PerformDetection(k)
  \/ \E k \in ThreadIds : GetBoxes(k)
  \/ \E k \in ThreadIds : LoopOverStopped(k)
  \/ \E k \in ThreadIds : LoopOverAllObjects(k, {<< >>}, 0, BOOLEAN, SinksOk)
  \/ \E k \in ThreadIds : ExitLoop(k)

SpecSession == InitSession /\ [][NextSession]_vars

\* ---- SpecCancel: the sessions of SpecSession with an LED sink and a GUI
\* sink set, so that every cycle that reaches the sinks forwards to both.
InitCancel == InitWith({FALSE}, {TRUE}, {TRUE})

SpecCancel == InitCancel /\ [][NextSession]_vars

\* ---- SpecFailure: cycles in which the detector, the hand-landmark
\* extraction or the gesture classifier fails, for frames of up to MaxDet
\* detections.
FailureDetections ==
     { Det("person", 80, 250, 750, h) : h \in {NoHand, "L", ExtractRaises, ClassifyRaises} }
\cup { Det(NoLabel, 80, 250, 750, "L") }

FailureFrames == SeqsUpTo(FailureDetections, MaxDet)

InitFailure == InitWith({TRUE}, BOOLEAN, BOOLEAN)

NextFailure ==
  \/ SetLedRanges(8, 2)
  \/ StartDetection({1})
  \/ \E s \in ThreadIds : Update(s, {1})
  \/ \E k \in ThreadIds : StartStream(k)
  \/ \E k \in ThreadIds : LoopTest(k)
  \/ \E k \in ThreadIds : PerformDetection(k)
  \/ \E k \in ThreadIds : PerformDetectionRaises(k)
  \/ \E k \in ThreadIds : GetBoxes(k)
  \/ \E k \in ThreadIds : LoopOverAllObjects(k, FailureFrames, 0, {FALSE}, SinksOk)

SpecFailure == InitFailure /\ [][NextFailure]_vars

\* ---- SpecRestart: a session that holds a gesture is stopped and another
\* one is started, with the clock.  An image is named by the time the camera
\* read it, and the acquisition thread is left out: the image a stream holds
\* is the one its constructor read (line 246), which tells when start_detection
\* built the stream.
RestartFrames == { << Det("person", 80, 250, 750, "L") >> }

InitRestart == InitWith({TRUE}, {FALSE}, {TRUE})

NextRestart ==
  \/ SetLedRanges(8, 2)
  \/ StartDetection({now})
  \/ StopClear
  \/ StopStream
  \/ StopReturn
  \/ Tick
  \/ \E k \in ThreadIds : StartStream(k)
  \/ \E k \in ThreadIds : LoopTest(k)
  \/ \E k \in ThreadIds : PerformDetection(k)
  \/ \E k \in ThreadIds : GetBoxes(k)
  \/ \E k \in ThreadIds : LoopOverStopped(k)
  \/ \E k \in ThreadIds : LoopOverAllObjects(k, RestartFrames, 0, {FALSE}, SinksOk)
  \/ \E k \in ThreadIds : ExitLoop(k)

SpecRestart == InitRestart /\ [][NextRestart]_vars

\* ---- SpecOvershoot: cycles with an LED count the section count does not
\* divide, so that the last range create_led_tuple_range_list makes ends past
\* the last LED; persons stand on the left, in the middle and on the right.
OvershootConfig == << 7, 2 >>

OvershootDetections ==
  { Det("person", 80, x[1], x[2], h) :
      x \in { << 0, 400 >>, << 250, 750 >>, << 600, 1000 >> }, h \in { NoHand, "L" } }

OvershootFrames == SeqsUpTo(OvershootDetections, MaxDet)

InitOvershoot == InitWith(BOOLEAN, {TRUE}, BOOLEAN)

NextOvershoot ==
  \/ SetLedRanges(OvershootConfig[1], OvershootConfig[2])
  \/ StartDetection({1})
  \/ \E s \in ThreadIds : Update(s, {1})
  \/ \E k \in ThreadIds : StartStream(k)
  \/ \E k \in ThreadIds : LoopTest(k)
  \/ \E k \in ThreadIds : PerformDetection(k)
  \/ \E k \in ThreadIds : GetBoxes(k)
  \/ \E k \in ThreadIds : LoopOverAllObjects(k, OvershootFrames, 0, {FALSE}, SinksOk)

SpecOvershoot == InitOvershoot /\ [][NextOvershoot]_vars

\* ---- SpecStop: sessions started and stopped, every start succeeding (so
\* thread k runs on stream k), under fair scheduling: a thread that can take
\* a step takes it, and a stop_detection that has begun runs to its end.
ProcessingStep(k) ==
  \/ StartStream(k)
  \/ LoopTest(k)
  \/ PerformDetection(k)
  \/ GetBoxes(k)
  \/ LoopOverStopped(k)
  \/ LoopOverAllObjects(k, {<< >>}, 0, BOOLEAN, SinksOk)
  \/ ExitLoop(k)

NextStop ==
  \/ SetLedRanges(8, 2)
  \/ StartDetection({1})
  \/ StartDetectionNoop
  \/ StopClear
  \/ StopStream
  \/ StopReturn
  \/ \E s \in ThreadIds : Update(s, {1})
  \/ \E k \in ThreadIds : ProcessingStep(k)

FairStop ==
  /\ \A k \in ThreadIds : WF_vars(ProcessingStep(k))
  /\ \A s \in ThreadIds : WF_vars(Update(s, {1}))
  /\ WF_vars(StopStream \/ StopReturn)

SpecStop == InitSession /\ [][NextStop]_vars /\ FairStop

\* ---- SpecRead: one session whose camera delivers frame 1, 2, 3, ... while
\* the processing thread reads at its own pace.
NextCapture(s) ==
  IF s <= Len(streams)
  THEN (IF streams[s].frame < MaxCapture THEN {streams[s].frame + 1} ELSE {})
  ELSE {}

NextRead ==
  \/ SetLedRanges(8, 2)
  \/ StartDetection({1})
  \/ \E s \in ThreadIds : Update(s, NextCapture(s))
  \/ \E k \in ThreadIds : StartStream(k)
  \/ \E k \in ThreadIds : LoopTest(k)
  \/ \E k \in ThreadIds : PerformDetection(k)
  \/ \E k \in ThreadIds : GetBoxes(k)
  \/ \E k \in ThreadIds : LoopOverAllObjects(k, {<< >>}, 0, {FALSE}, SinksOk)

SpecRead == InitSession /\ [][NextRead]_vars

\* ---- SpecMapper: the spatial mapping functions applied to inputs of their
\* own: create_fov_range_list to (hfov, n), create_led_tuple_range_list to
\* (number_of_leds, n), determine_leds_range_for_angle to an angle and the
\* two lists made for the same n.  out holds the input, then the result.
MapperInput(kind, hfov, n, leds, angle) ==
  [kind |-> kind, hfov |-> hfov, n |-> n, leds |-> leds, angle |-> angle,
   fov |-> << >>, led |-> << >>, result |-> << >>, raised |-> FALSE]

\* angles in steps of half a degree, from beyond one end of the default FOV
\* to beyond the other
MapperAngles == { << a, 2 >> : a \in -(Hfov + 3) .. (Hfov + 3) }

FovInputs ==
  { MapperInput("fov_in", h, n, 0, << 0, 1 >>) :
      h \in (1 .. MaxHfov) \cup {Hfov}, n \in 1 .. MaxSections }

LedInputs ==
  { MapperInput("led_in", 0, n, l, << 0, 1 >>) : l \in 1 .. MaxLeds, n \in 1 .. MaxSections }

ResolveInputs ==
  { MapperInput("resolve_in", Hfov, c[2], c[1], a) :
      c \in { x \in (1 .. MaxLeds) \X (1 .. MaxSections) :
                led_tuple_loop_terminates(x[1], x[2]) },
      a \in MapperAngles }

InitMapper ==
  /\ hand_gesture_recognition = FALSE
  /\ client_conn = FALSE
  /\ gui_window = FALSE
  /\ led_ranges_set = FALSE
  /\ led_sections = << >>
  /\ number_of_sections = 0
  /\ fov_sections = << >>
  /\ detection_active = FALSE
  /\ detection_thread = 0
  /\ video_stream = 0
  /\ streams = << >>
  /\ threads = << >>
  /\ previous_gestures = None
  /\ gesture_start_time = 0
  /\ frame = NoFrame
  /\ now = 1
  /\ ctl = [pc |-> "idle", last |-> "none", stops |-> 0]
  /\ out \in FovInputs \cup LedInputs \cup ResolveInputs

notout == << config, ledcfg, session, streams, threads, gesture, frame, now, ctl >>

ApplyFovPartition ==
  /\ out.kind = "fov_in"
  /\ out' = [out EXCEPT !.kind = "fov",
                        !.result = create_fov_range_list(out.hfov, out.n)]
  /\ UNCHANGED notout

\* the loop of create_led_tuple_range_list does not end when its step is 0
ApplyLedPartition ==
  /\ out.kind = "led_in"
  /\ IF led_tuple_loop_terminates(out.leds, out.n)
     THEN out' = [out EXCEPT !.kind = "led",
                             !.result = create_led_tuple_range_list(out.leds, out.n)]
     ELSE out' = [out EXCEPT !.kind = "led_hang"]
  /\ UNCHANGED notout

ApplyResolveLedRange ==
  /\ out.kind = "resolve_in"
  /\ LET fov == create_fov_range_list(out.hfov, out.n)
         led == create_led_tuple_range_list(out.leds, out.n)
         raises == determine_leds_range_raises(out.angle, led, fov)
     IN  out' = [out EXCEPT !.kind = "resolve", !.fov = fov, !.led = led,
                            !.raised = raises,
                            !.result = IF raises THEN << >>
                                       ELSE determine_leds_range_for_angle(out.angle, led, fov)]
  /\ UNCHANGED notout

NextMapper == ApplyFovPartition \/ ApplyLedPartition \/ ApplyResolveLedRange

SpecMapper == InitMapper /\ [][NextMapper]_vars

\* ---- SpecBrightness: brightness_based_on_distance applied to two distances
\* d1 <= d2, every pair of neighbouring millimetres and a coarse grid of pairs.
BrightnessInput(d1, d2) == [kind |-> "brightness_in", d1 |-> d1, d2 |-> d2, b1 |-> 0, b2 |-> 0]

BrightnessGrid == { g * 250 : g \in 0..(MaxMillimetres \div 250) } \cup { 0 - 300, MaxMillimetres }

BrightnessInputs ==
  { BrightnessInput(d, d + 1) : d \in (0 - 20)..MaxMillimetres } \cup
  { BrightnessInput(p[1], p[2]) : p \in { q \in BrightnessGrid \X BrightnessGrid : q[1] <= q[2] } }

InitBrightness ==
  /\ hand_gesture_recognition = FALSE
  /\ client_conn = FALSE
  /\ gui_window = FALSE
  /\ led_ranges_set = FALSE
  /\ led_sections = << >>
  /\ number_of_sections = 0
  /\ fov_sections = << >>
  /\ detection_active = FALSE
  /\ detection_thread = 0
  /\ video_stream = 0
  /\ streams = << >>
  /\ threads = << >>
  /\ previous_gestures = None
  /\ gesture_start_time = 0
  /\ frame = NoFrame
  /\ now = 1
  /\ ctl = [pc |-> "idle", last |-> "none", stops |-> 0]
  /\ out \in BrightnessInputs

\* round(x, 2) of a float: where the exact quotient of the linear branch lies
\* half way between two hundredths, the binary value the float division
\* produces decides the direction, so both neighbours are outcomes
brightness_outcomes(distance) ==
  LET linear_num == (distance - MinDistance) * LinearSlope
      linear_den == (MaxDistance \div 2) - MinDistance
      tie == /\ distance > MinDistance
             /\ distance <= MaxDistance \div 2
             /\ (2 * linear_num) % (2 * linear_den) = linear_den
  IN  IF tie THEN { linear_num \div linear_den, (linear_num \div linear_den) + 1 }
      ELSE { brightness_based_on_distance(distance) }

ApplyBrightness ==
  /\ out.kind = "brightness_in"
  /\ \E b1 \in brightness_outcomes(out.d1), b2 \in brightness_outcomes(out.d2) :
       out' = [out EXCEPT !.kind = "brightness", !.b1 = b1, !.b2 = b2]
  /\ UNCHANGED notout

NextBrightness == ApplyBrightness

SpecBrightness == InitBrightness /\ [][NextBrightness]_vars

\* ---- SpecSinks: cycles whose LED sink or GUI sink raises.
SinkFrames ==
  { << >>, << Det("person", 80, 250, 750, NoHand) >>, << Det("person", 80, 250, 750, "L") >> }

InitSinks == InitWith(BOOLEAN, BOOLEAN, BOOLEAN)

NextSinks ==
  \/ SetLedRanges(8, 2)
  \/ StartDetection(CameraReads)
  \/ \E s \in ThreadIds : Update(s, CameraReads)
  \/ \E k \in ThreadIds : StartStream(k)
  \/ \E k \in ThreadIds : LoopTest(k)
  \/ \E k \in ThreadIds : PerformDetection(k)
  \/ \E k \in ThreadIds : GetBoxes(k)
  \/ \E k \in ThreadIds : LoopOverAllObjects(k, SinkFrames, 0, {FALSE}, SinkOutcomes)

SpecSinks == InitSinks /\ [][NextSinks]_vars

\* ------------------------------------------------------------ properties
\* a step in which loop_over_all_objects_detected handled one frame
FrameStep == out.kind # "processed" /\ out'.kind = "processed"

\* C1: a gesture control event is emitted in a frame only if the state before
\* the frame was already Holding the same label and more than 1 second has
\* passed since the hold began (so none on the 1st or 2nd of three frames
\* half a second apart).
C1_EventOnlyAfterHold ==
  [][FrameStep =>
       \A i \in 1 .. Len(out'.events) :
          /\ previous_gestures = out'.events[i].held
          /\ gesture_start_time # 0
          /\ out'.events[i].duration > Seconds(1)]_vars

\* C2: when a label classified in a frame differs from the held label (or the
\* state is Idle), the state after the frame is Holding(that label, now), no
\* event is emitted in the frame, and the hold is timed from this frame.
C2_NewLabelRestartsHold ==
  [][(FrameStep /\ hand_gesture_recognition) =>
       \A i \in 1 .. Len(out'.gesture_src) :
          LET label == out'.dets[out'.gesture_src[i]].hand
          IN  label # previous_gestures =>
                /\ previous_gestures' = label
                /\ gesture_start_time' >= now
                /\ gesture_start_time' <= now'
                /\ out'.events = << >>]_vars

\* C4: each frame showing one hand whose one-shot label (L, Pointer, Thumbs Up,
\* Thumbs Down) has been held for more than 1 second emits exactly one event,
\* of that label's kind.
C4_OneShotEventEveryFrame ==
  [][(/\ FrameStep
      /\ hand_gesture_recognition
      /\ gui_window
      /\ Len(out'.dets) = 1
      /\ out'.gesture_src = << 1 >>
      /\ out'.dets[1].hand = previous_gestures
      /\ previous_gestures \in {"L", "Pointer", "Thumbs Up", "Thumbs Down"}
      /\ gesture_start_time # 0
      /\ now' - gesture_start_time > Seconds(1))
     =>
     /\ Len(out'.events) = 1
     /\ out'.events[1].key =
          (CASE previous_gestures = "L" -> "HANDGESTUREINCREASELEDRANGE"
             [] previous_gestures = "Pointer" -> "HANDGESTUREDECREASELEDRANGE"
             [] previous_gestures = "Thumbs Up" -> "HANDGESTUREINCREASEBRIGHTNESS"
             [] previous_gestures = "Thumbs Down" -> "HANDGESTUREDECREASEBRIGHTNESS")]_vars

C3_NoHandFrameEndsIdle ==
  (/\ hand_gesture_recognition
   /\ out.kind = "processed"
   /\ \/ ~out.hands
      \/ \A i \in 1 .. Len(out.dets) :
            ~(/\ out.dets[i].cls = "person"
              /\ out.dets[i].score > MinConfThreshold
              /\ out.dets[i].score <= 100
              /\ out.dets[i].hand # NoHand))
  => (previous_gestures = None /\ gesture_start_time = 0)

\* a frame with a qualifying person but no hand has ended a hold
C3_Witness ==
  /\ hand_gesture_recognition
  /\ out.kind = "processed"
  /\ out.cleared
  /\ previous_gestures = None
  /\ \E i \in 1 .. Len(out.dets) :
        /\ out.dets[i].cls = "person"
        /\ out.dets[i].score = 80
        /\ out.dets[i].hand = NoHand

\* C6: LED commands are accumulated, and the gesture state machine is fed,
\* only for detections labelled "person" with threshold < score <= 1.0; any
\* other detection contributes neither.
C6_OnlyQualifyingPersons ==
  out.kind = "processed" =>
    /\ \A i \in 1 .. Len(out.dets) :
          ~(/\ out.dets[i].cls = "person"
            /\ out.dets[i].score > MinConfThreshold
            /\ out.dets[i].score <= 100)
          => /\ \A j \in 1 .. Len(out.led_src) : out.led_src[j] # i
             /\ \A j \in 1 .. Len(out.gesture_src) : out.gesture_src[j] # i
    /\ Len(out.led) = (IF out.led_sent THEN Len(out.led_src) ELSE 0)
    /\ (out.gesture_src = << >> => out.events = << >>)

\* a frame of a qualifying person and a chair, both with a hand in their
\* region: only the person gave a command and was evaluated
C6_Witness ==
  /\ out.kind = "processed"
  /\ hand_gesture_recognition
  /\ out.led_sent
  /\ Len(out.dets) = 2
  /\ out.dets[2].cls = "chair"
  /\ out.dets[2].hand # NoHand
  /\ out.led_src = << 1 >>
  /\ out.gesture_src = << 1 >>
  /\ Len(out.led) = 1

\* C7: the LED command list handed to the sink for a processed frame holds
\* exactly one command per qualifying person of that frame, in detection order.
C7_OneCommandPerQualifyingPerson ==
  (out.kind = "processed" /\ out.led_sent) =>
    LET qualifying == { i \in 1 .. Len(out.dets) :
                          /\ out.dets[i].cls = "person"
                          /\ out.dets[i].score > MinConfThreshold
                          /\ out.dets[i].score <= 100 }
    IN  /\ Len(out.led) = Cardinality(qualifying)
        /\ \A j \in 1 .. Len(out.led_src) : out.led_src[j] \in qualifying
        /\ \A j \in 1 .. Len(out.led_src) - 1 : out.led_src[j] < out.led_src[j + 1]

\* C8: start_detection while the processing thread is alive changes nothing
\* (no new stream, no new thread, the same FOV partition), and at every moment
\* at most one processing thread is alive.
C8_StartWhileAliveIsNoop ==
  /\ [](Cardinality({ k \in 1 .. Len(threads) : threads[k] # "dead" }) <= 1)
  /\ [][(/\ ctl.pc = "idle"
         /\ ctl'.pc = "idle"
         /\ ctl' # ctl
         /\ (IF detection_thread = 0 THEN FALSE ELSE threads[detection_thread] # "dead"))
        =>
        /\ ctl'.last = "start_noop"
        /\ UNCHANGED << streams, threads, fov_sections, video_stream,
                        detection_thread >>]_vars

\* start_detection was called while the thread was running its loop
C8_Witness ==
  /\ ctl.last = "start_noop"
  /\ detection_thread # 0
  /\ Len(threads) = 1
  /\ threads[1] \in {"detect", "boxes", "objects"}

C10_NullFrameSkipsCycle ==
  [][\A k \in 1 .. Len(threads) :
       (/\ threads[k] = "detect"
        /\ threads'[k] # "detect"
        /\ ~streams[video_stream].stopped
        /\ streams[video_stream].frame = NoFrame)
       =>
       /\ threads'[k] = "loop"
       /\ out'.consumed = FALSE
       /\ out'.led_sent = FALSE
       /\ out'.gui = FALSE
       /\ out'.events = << >>
       /\ UNCHANGED << previous_gestures, gesture_start_time, detection_active >>]_vars

\* a None frame was skipped in the middle of a hold and the thread is back at
\* the loop test
C10_Witness ==
  /\ out.kind = "null_frame"
  /\ previous_gestures # None
  /\ detection_active
  /\ threads[detection_thread] = "loop"

\* C11: a cycle whose LED sink or GUI sink raises ends like any other: the
\* thread goes back to the loop test with the flag as it was, and the GUI
\* frame is written whenever a window is set and its own write does not
\* raise, even when the LED sink raised.
C11_SinkFailureKeepsLoop ==
  [][FrameStep =>
       /\ \A k \in 1 .. Len(threads) : threads[k] = "objects" => threads'[k] = "loop"
       /\ detection_active' = detection_active
       /\ UNCHANGED << detection_thread, video_stream >>
       /\ (gui_window /\ ~out'.gui_failed) => out'.gui]_vars

\* the LED sink raised and the GUI frame of the same cycle went out
C11_Witness ==
  /\ out.kind = "processed"
  /\ out.led_failed
  /\ out.gui
  /\ detection_active
  /\ threads[detection_thread] = "loop"

\* C12: once stop_detection has cleared the flag of a started session, the
\* session's processing thread eventually ends and its acquisition thread
\* eventually releases the camera handle and ends, however the call
\* interleaves with the start of the thread.
C12_StopTerminates ==
  \A s \in ThreadIds :
     (ctl.pc = "stop_stream" /\ video_stream = s /\ detection_thread = s)
     ~> (IF s <= Len(threads) /\ s <= Len(streams)
         THEN /\ threads[s] = "dead"
              /\ streams[s].update = "done"
              /\ streams[s].released = 1
         ELSE FALSE)

\* stop_detection has stopped the stream before the processing thread has
\* started it
C12_Witness ==
  /\ ctl.pc = "stop_sleep"
  /\ detection_thread # 0
  /\ threads[detection_thread] = "start"
  /\ streams[video_stream].stopped
  /\ streams[video_stream].update = "unstarted"

\* C13: read() is always possible and gives the frame the acquisition loop
\* stored last; from one read to the next the capture number of the frame
\* never decreases (it may stay, and it may jump).
C13_ReadsNeverGoBack ==
  /\ [](\A k \in 1 .. Len(threads) :
          threads[k] = "detect" => ENABLED PerformDetection(k))
  /\ [][\A k \in 1 .. Len(threads) :
          (threads[k] = "detect" /\ threads'[k] = "boxes" /\ ~streams[video_stream].stopped)
          => /\ frame' = streams[video_stream].frame
             /\ frame' >= frame]_vars

\* a read has returned the third frame or a later one, the newest there is
C13_Witness ==
  /\ detection_thread # 0
  /\ threads[detection_thread] = "boxes"
  /\ frame >= 3
  /\ frame = streams[video_stream].frame

\* C14: create_led_tuple_range_list(numLeds, n) yields exactly n ranges for
\* every positive numLeds and n, so that the LED list is one shorter than the
\* list of FOV boundaries made for the same n.
C14_LedPartitionHasNSections ==
  out.kind = "led" =>
    /\ Len(out.result) = out.n
    /\ Len(out.result) = Len(create_fov_range_list(Hfov, out.n)) - 1

\* C15: for an angle above the largest or below the smallest FOV boundary,
\* determine_leds_range_for_angle returns the last element of the LED list
\* instead of failing.
C15_FallbackIsLastSection ==
  (/\ out.kind = "resolve"
   /\ \/ out.angle[1] * out.fov[1][2] > out.fov[1][1] * out.angle[2]
      \/ out.angle[1] * out.fov[Len(out.fov)][2] < out.fov[Len(out.fov)][1] * out.angle[2])
  => (~out.raised /\ out.result = out.led[Len(out.led)])

C17_FovSpansHalfHfov ==
  out.kind = "fov" =>
    /\ 2 * out.result[1][1] = out.hfov * out.result[1][2]
    /\ 2 * out.result[Len(out.result)][1] = (0 - out.hfov) * out.result[Len(out.result)][2]
    /\ \A i \in 1 .. Len(out.result) - 1 :
          (out.result[i][1] * out.result[i + 1][2] - out.result[i + 1][1] * out.result[i][2])
            * out.n
          = out.hfov * out.result[i][2] * out.result[i + 1][2]

\* C18: create_fov_range_list(hfov, n) returns n + 1 values, each strictly
\* greater than the next, for every positive hfov and every n >= 1.
C18_FovStrictlyDescending ==
  out.kind = "fov" =>
    /\ Len(out.result) = out.n + 1
    /\ \A i \in 1 .. Len(out.result) - 1 :
          out.result[i][1] * out.result[i + 1][2] > out.result[i + 1][1] * out.result[i][2]

\* C19: the ranges create_led_tuple_range_list returns are ascending, the
\* first starts at 0, each starts where the one before ends, together they
\* cover [0, numLeds), and only the last may end past numLeds.
C19_LedRangesContiguous ==
  out.kind = "led" =>
    /\ Len(out.result) >= 1
    /\ out.result[1][1] = 0
    /\ \A j \in 1 .. Len(out.result) : out.result[j][1] < out.result[j][2]
    /\ \A j \in 1 .. Len(out.result) - 1 :
          /\ out.result[j + 1][1] = out.result[j][2]
          /\ out.result[j][2] <= out.leds
    /\ out.result[Len(out.result)][2] >= out.leds

\* several ranges, the last one ending past the number of LEDs
C19_Witness ==
  /\ out.kind = "led"
  /\ Len(out.result) >= 2
  /\ out.result[Len(out.result)][2] > out.leds

C21_BrightnessMonotone ==
  out.kind = "brightness" =>
    /\ out.d1 <= out.d2 => out.b1 <= out.b2
    /\ out.d1 = MaxDistance \div 2 => out.b1 = LinearSlope

\* a pair that straddles the threshold: 2500 mm on the linear branch,
\* 2501 mm on the exponential branch
C21_Witness ==
  /\ out.kind = "brightness"
  /\ out.d1 = MaxDistance \div 2
  /\ out.d2 = out.d1 + 1
  /\ out.b1 = LinearSlope
  /\ out.b2 >= out.b1

\* C22: the brightness is 0 for every distance <= min_distance (negative
\* distances included), 1 for every distance >= max_distance, and between 0
\* and 1 for every distance in between.
C22_BrightnessInUnitRange ==
  out.kind = "brightness" =>
    \A p \in { << out.d1, out.b1 >>, << out.d2, out.b2 >> } :
      /\ p[1] <= MinDistance => p[2] = 0
      /\ p[1] >= MaxDistance => p[2] = 100
      /\ (p[1] > MinDistance /\ p[1] < MaxDistance) => (p[2] >= 0 /\ p[2] <= 100)

\* a negative distance and a distance beyond max_distance
C22_Witness ==
  /\ out.kind = "brightness"
  /\ out.d1 < 0
  /\ out.b1 = 0
  /\ out.d2 > MaxDistance
  /\ out.b2 = 100

\* C23: the gesture state machine is evaluated at most once per processed
\* frame: at most one detection reaches the label comparison (so the held
\* label and the hold start change at most once) and at most one gesture
\* event is emitted, however many qualifying persons show a hand.
C23_OneEvaluationPerFrame ==
  [][FrameStep =>
       /\ Len(out'.gesture_src) <= 1
       /\ Len(out'.events) <= 1]_vars

\* C24: once stop_detection has cleared the flag the loop completes at most
\* the iteration in flight.  Step by step: a thread that tests the cleared
\* flag leaves the loop and calls the detector no more; a thread that has
\* left never comes back; the flag is not set again while the thread lives;
\* and an iteration that forwards under the cleared flag ends at the loop
\* test, where the first step applies.  So at most one LED list and one GUI
\* frame are forwarded after the flag was cleared.
C24_StopEndsAfterCurrentIteration ==
  [][\A k \in 1 .. Len(threads) :
       /\ (threads[k] = "loop" /\ ~detection_active /\ threads'[k] # "loop")
            => threads'[k] = "exit"
       /\ threads[k] \in {"exit", "dead"} => threads'[k] \in {"exit", "dead"}
       /\ (~detection_active /\ threads[k] # "dead") => ~detection_active'
       /\ (~detection_active /\ threads[k] = "objects" /\ threads'[k] # "objects")
            => threads'[k] = "loop"]_vars

\* the iteration in flight forwarded its LED list and its GUI frame after the
\* flag was cleared, and the thread is back at the loop test
C24_Witness ==
  /\ out.kind = "processed"
  /\ ~out.active
  /\ out.led_sent
  /\ out.gui
  /\ ~detection_active
  /\ detection_thread # 0
  /\ threads[detection_thread] = "loop"

\* C25: a failure of the detector, of the hand-landmark extraction or of the
\* gesture classifier skips only the current object or the current frame.
\* After a cycle with such a failure the thread is back at the loop test with
\* the flag still set; the held label is empty exactly when the hold start is
\* empty; a detector failure leaves the gesture state as it was; a frame is
\* given up as a whole only for a class index without a label; and in every
\* other frame each qualifying person gets its LED command and each one whose
\* hand is classified reaches the gesture comparison, whatever failed for the
\* persons before it.
C25_FailureSkipsOnlyObjectOrFrame ==
  [][(out.kind = "none" /\ out'.kind \in {"processed", "aborted", "detector_failed"}) =>
       /\ detection_active'
       /\ threads'[detection_thread] = "loop"
       /\ previous_gestures' = None <=> gesture_start_time' = 0
       /\ out'.kind = "detector_failed" => UNCHANGED gesture
       /\ out'.kind = "aborted" =>
            \E i \in 1 .. Len(out'.dets) : out'.dets[i].cls = NoLabel
       /\ out'.kind = "processed" =>
            /\ \A i \in 1 .. Len(out'.dets) :
                 IsQualifyingPerson(out'.dets[i]) =>
                   /\ \E j \in 1 .. Len(out'.led_src) : out'.led_src[j] = i
                   /\ out'.dets[i].hand \in GestureLabels =>
                        \E j \in 1 .. Len(out'.gesture_src) : out'.gesture_src[j] = i
            /\ out'.led_sent = client_conn
            /\ out'.gui = gui_window]_vars

\* a frame of two persons: the classifier raised for the first, the second
\* was evaluated and begins a hold
C25_Witness ==
  /\ out.kind = "processed"
  /\ Len(out.dets) = 2
  /\ out.dets[1].hand = ClassifyRaises
  /\ out.dets[2].hand = "L"
  /\ out.gesture_src = << 2 >>
  /\ out.led_src = << 1, 2 >>
  /\ out.led_sent
  /\ out.gui
  /\ previous_gestures = "L"
  /\ gesture_start_time # 0

\* C26: every session begins Idle on a new VideoStream.  The thread of a
\* session starts a stream that was never started and leaves the gesture
\* state empty before its first loop test; from then on a hold start is never
\* older than the session's stream (whose first image tells when it was
\* built), and no event carries a duration that reaches back before it.
C26_SessionStartsIdle ==
  /\ [](\A k \in 1 .. Len(threads) :
          (k = detection_thread /\ threads[k] # "start") =>
            (gesture_start_time = 0 \/ gesture_start_time >= streams[video_stream].frame))
  /\ [][\A k \in 1 .. Len(threads) :
          (threads[k] = "start" /\ threads'[k] # "start") =>
            /\ streams[video_stream].update = "unstarted"
            /\ streams[video_stream].released = 0
            /\ previous_gestures' = None
            /\ gesture_start_time' = 0]_vars
  /\ [][FrameStep =>
          \A j \in 1 .. Len(out'.events) :
            out'.events[j].duration <= now' - streams[video_stream].frame]_vars

\* the second session, opened later than the first, has held a label of its
\* own long enough for an event
C26_Witness ==
  /\ Len(streams) = 2
  /\ video_stream = 2
  /\ streams[2].frame > 1
  /\ previous_gestures = "L"
  /\ gesture_start_time >= streams[2].frame
  /\ out.kind = "processed"
  /\ Len(out.events) > 0

\* C27: every LED range of a forwarded command lies within [0, number_of_leds):
\* a last range of the partition that ends past the last LED is clamped
\* before the command is forwarded.
C27_ForwardedRangeWithinLeds ==
  (out.kind = "processed" /\ out.led_sent) =>
    \A j \in 1 .. Len(out.led) :
      /\ out.led[j].led_tuple[1] >= 0
      /\ out.led[j].led_tuple[2] <= OvershootConfig[1]

\* C28: at every frame boundary of a session (the thread at its loop test) the
\* gesture state is well formed: the held label is empty if and only if the
\* hold start is empty.
C28_GestureStateWellFormed ==
  \A k \in 1 .. Len(threads) :
    threads[k] = "loop" => (previous_gestures = None <=> gesture_start_time = 0)

\* a frame without a hand has just emptied a hold: label and hold start are
\* empty together at the boundary
C28_Witness ==
  /\ out.kind = "processed"
  /\ out.cleared
  /\ previous_gestures = None
  /\ gesture_start_time = 0
  /\ detection_thread # 0
  /\ threads[detection_thread] = "loop"

\* C29: at any time at most one camera handle that an orchestrator opened is
\* unreleased: start_detection opens no camera for a new VideoStream while the
\* handle of an earlier one has not been released.
C29_OneCameraHandle ==
  Cardinality({ s \in 1 .. Len(streams) : streams[s].released = 0 }) <= 1

\* C30: a start_detection issued after stop_detection has returned results in
\* a running session: when the call returns the flag is set and a thread that
\* has not ended is there to run the loop; the call is never a silent no-op.
C30_StartAfterStopRuns ==
  [][(ctl.pc = "idle" /\ ctl.last = "stop" /\ ctl'.pc = "idle" /\ ctl'.last # "stop") =>
       /\ detection_active'
       /\ detection_thread' # 0
       /\ threads'[detection_thread'] \notin {"exit", "dead"}]_vars

\* C31: create_led_tuple_range_list terminates for every positive number of
\* LEDs and every positive number of sections, also when the number of
\* sections is at least twice the number of LEDs and the step rounds to 0.
C31_LedPartitionTerminates ==
  (out.kind \in {"led", "led_hang"} /\ out.leds >= 1 /\ out.n >= 1) => out.kind = "led"

\* C32: start_detection is all-or-nothing: when it raises before the thread
\* is launched, the flag is not set, there is no processing thread and no
\* camera handle is left opened and unreleased.
C32_StartAllOrNothing ==
  [][(ctl'.last = "start_raised" /\ ctl' # ctl) =>
       /\ ~detection_active'
       /\ detection_thread' = 0 \/ threads'[detection_thread'] = "dead"
       /\ \A s \in 1 .. Len(streams') :
            (s > Len(streams) => streams'[s].released > 0)]_vars

\* C33: with gesture recognition on, every qualifying person whose region
\* holds a hand reaches the gesture comparison, whether or not an LED command
\* was made for that person, and such a frame does not empty the hold.
C33_GestureFedWithoutLedCommand ==
  [][(FrameStep /\ hand_gesture_recognition) =>
       \A i \in 1 .. Len(out'.dets) :
         (IsQualifyingPerson(out'.dets[i]) /\ out'.dets[i].hand \in GestureLabels) =>
           /\ \E j \in 1 .. Len(out'.gesture_src) : out'.gesture_src[j] = i
           /\ ~out'.cleared]_vars

====
